---- MODULE Spec2Model ----
(***************************************************************************)
(* Model of the scenario engine of demo_agent/scenario: ScenarioAgent,     *)
(* ScenarioStateManager, ContextManager, StateCleanupManager and           *)
(* ComponentRouter.  The session state is a dictionary (a function whose   *)
(* DOMAIN is the set of keys present); every mutation is a state delta     *)
(* carried by an emitted event and applied when the event is consumed.     *)
(***************************************************************************)
EXTENDS Integers, Sequences, FiniteSets, TLC

VARIABLES
    scenario,   \* the Scenario the agent was constructed with
    state,      \* ctx.session.state (persisted between invocations)
    pc,         \* position of _run_async_impl / _execute_scenario_loop
    cur,        \* current_component_id, the loop's local variable
    result,     \* the ComponentResult of the last executed component
    log,        \* what this invocation did so far, in order
    prevEnd,    \* how the previous invocation ended
    invocations \* the number of invocations started so far

vars == <<scenario, state, pc, cur, result, log, prevEnd, invocations>>

\* the number of invocations a behaviour follows
MaxInvocations == 2

-----------------------------------------------------------------------------
(* Python values *)

\* None: as the value of a state delta it deletes the key
Tomb == [none |-> TRUE]
\* a truthy value that is not a dict (a JSON string): .get and .copy raise
NonDict == [nondict |-> TRUE]
EmptyDict == <<>>

ReservedKeys == {"scenario_state", "component_data"}

Has(d, k) == k \in DOMAIN d
Put(d, k, v) == [x \in (DOMAIN d) \cup {k} |-> IF x = k THEN v ELSE d[x]]
\* d.get(k, dflt)
Get(d, k, dflt) == IF Has(d, k) THEN d[k] ELSE dflt
\* the keys of a delta whose value is None
NoneKeys(delta) == {k \in DOMAIN delta : k \in ReservedKeys /\ delta[k] = Tomb}

\* the session applies the state delta of a consumed event
ApplyDelta(st, delta) ==
    [k \in ((DOMAIN st) \cup (DOMAIN delta)) \ NoneKeys(delta) |->
        IF Has(delta, k) THEN delta[k] ELSE st[k]]

-----------------------------------------------------------------------------
(* ComponentStatus *)

PENDING == "pending"
RUNNING == "running"
COMPLETED == "completed"
FAILED == "failed"

Statuses == {PENDING, RUNNING, COMPLETED, FAILED}

\* status.value: the string stored for a member of the enum
StatusValue(status) ==
    CASE status = PENDING -> "pending"
      [] status = RUNNING -> "running"
      [] status = COMPLETED -> "completed"
      [] status = FAILED -> "failed"

\* mutant: the stored string is looked up among the member names
ComponentStatusByName(status_str) ==
    IF status_str = "PENDING" THEN PENDING
    ELSE IF status_str = "RUNNING" THEN RUNNING
    ELSE IF status_str = "COMPLETED" THEN COMPLETED
    ELSE IF status_str = "FAILED" THEN FAILED
    ELSE ""

\* ComponentStatus(status_str): the member of a stored string; "" stands for
\* the None returned after the ValueError of an unknown string
ComponentStatusOf(status_str) ==
    IF status_str = "pending" THEN PENDING
    ELSE IF status_str = "running" THEN RUNNING
    ELSE IF status_str = "completed" THEN COMPLETED
    ELSE IF status_str = "failed" THEN FAILED
    ELSE ""

-----------------------------------------------------------------------------
(* Scenario definitions: RoutingCondition, ScenarioComponent, Scenario *)

\* RoutingUtils.create_field_match_condition(key, value)
FieldCond(target, key, value) ==
    [target_component |-> target, kind |-> "field", key |-> key, value |-> value]
\* RoutingUtils.create_context_condition(key, value)
ContextCond(target, key, value) ==
    [target_component |-> target, kind |-> "context", key |-> key, value |-> value]
\* a condition whose predicate reads the session state's workflow cursor:
\* lambda result, ctx:
\*     ctx.session.state.get("scenario_state", {}).get("current_component") == value
CursorCond(target, value) ==
    [target_component |-> target, kind |-> "cursor", key |-> "", value |-> value]
\* a condition whose predicate raises
RaisingCond(target) ==
    [target_component |-> target, kind |-> "raises", key |-> "", value |-> ""]

Component(id, next, conds) ==
    [id |-> id, next_components |-> next, routing_conditions |-> conds,
     policy |-> "default"]

\* a component whose agent class overrides _determine_status
OverridingComponent(id, next, conds) ==
    [id |-> id, next_components |-> next, routing_conditions |-> conds,
     policy |-> "overridden"]

\* A -> B by default-next edges only, with a failure component
ChainScenario ==
    [name |-> "chain",
     components |-> << Component("A", <<"B">>, <<>>),
                       Component("B", <<>>, <<>>) >>,
     entry_component |-> "A",
     failure_component |-> TRUE]

\* A routes by conditions that are not mutually exclusive; Z does not exist
RouterScenario ==
    [name |-> "router",
     components |-> << Component("A", <<"C">>,
                           << FieldCond("B", "field", "x"),
                              RaisingCond("Z"),
                              FieldCond("C", "decision", "complete"),
                              FieldCond("B", "field", "y") >>),
                       Component("B", <<>>, <<>>),
                       Component("C", <<>>,
                           << ContextCond("Z", "field", "y") >>) >>,
     entry_component |-> "A",
     failure_component |-> TRUE]

\* one component, a dangling default-next id, no failure component
SoloScenario ==
    [name |-> "solo",
     components |-> << Component("A", <<"G">>, <<>>) >>,
     entry_component |-> "A",
     failure_component |-> FALSE]

\* P -> Q by default-next; P's agent overrides the status policy
PolicyScenario ==
    [name |-> "policy",
     components |-> << OverridingComponent("P", <<"Q">>, <<>>),
                       Component("Q", <<>>, <<>>) >>,
     entry_component |-> "P",
     failure_component |-> FALSE]

\* R routes to S while the stored cursor is still R, else to T by default-next
CursorScenario ==
    [name |-> "cursor",
     components |-> << Component("R", <<"T">>, << CursorCond("S", "R") >>),
                       Component("S", <<>>, <<>>),
                       Component("T", <<>>, <<>>) >>,
     entry_component |-> "R",
     failure_component |-> FALSE]

Scenarios ==
    {ChainScenario, RouterScenario, SoloScenario, PolicyScenario, CursorScenario}

\* components_by_id: the ids, and the component of an id
ComponentIds(sc) == {sc.components[i].id : i \in DOMAIN sc.components}
ComponentById(sc, id) ==
    sc.components[CHOOSE i \in DOMAIN sc.components : sc.components[i].id = id]

\* the key under which the json callback stores a component's output; the
\* agent of a component is named by the component's id here
OutputKey(name) == name \o "_output"

\* the structured outputs a component's response can parse to
Outputs ==
    { [decision |-> "complete"],
      [decision |-> "continue"],
      [decision |-> "failed"],
      [decision |-> "complete", field |-> "x"],
      [field |-> "y"],
      [decision |-> "continue", scenario_state |-> EmptyDict],
      [decision |-> "complete", scenario_state |-> NonDict],
      [decision |-> "failed", scenario_state |-> NonDict],
      [decision |-> "continue", component_data |-> Tomb],
      [decision |-> "complete",
       scenario_state |-> [completed |-> TRUE,
                           completion_reason |-> "user_input_required",
                           component_status |-> [Z |-> "done"]]] }

-----------------------------------------------------------------------------
(* ScenarioComponentAgent *)

\* mutant: a decision outside the three known values leaves the status pending
DetermineStatusPending(component_output) ==
    LET decision == Get(component_output, "decision", "")
    IN  IF decision = "complete" THEN COMPLETED
        ELSE IF decision = "continue" THEN RUNNING
        ELSE IF decision = "failed" THEN FAILED
        ELSE PENDING

\* _determine_status: the default policy on the decision field
DetermineStatus(component_output) ==
    LET decision == Get(component_output, "decision", "")
    IN  IF decision = "complete" THEN COMPLETED
        ELSE IF decision = "continue" THEN RUNNING
        ELSE IF decision = "failed" THEN FAILED
        ELSE COMPLETED

\* create_component_result: built from the output stored under the agent's key
CreateComponentResult(st, name) ==
    LET component_output == Get(st, OutputKey(name), EmptyDict)
    IN  [status |-> DetermineStatus(component_output),
         context_updates |-> component_output]

\* an overriding _determine_status: an output without a decision has not
\* started its work; the other outputs are judged by the default policy
OverriddenStatus(component_output) ==
    IF ~Has(component_output, "decision") THEN PENDING
    ELSE DetermineStatus(component_output)

\* create_component_result of the component's agent, with its own policy
ComponentResultOf(component, st) ==
    IF component.policy = "overridden"
    THEN [status |-> OverriddenStatus(Get(st, OutputKey(component.id), EmptyDict)),
          context_updates |-> Get(st, OutputKey(component.id), EmptyDict)]
    ELSE CreateComponentResult(st, component.id)

NoResult == [status |-> PENDING, context_updates |-> EmptyDict]

-----------------------------------------------------------------------------
(* ComponentRouter *)

\* routing_condition.condition(result, ctx); a raising predicate is caught
\* by _check_routing_conditions and counts as no match
ConditionHolds(cond, res, st) ==
    IF cond.kind = "field"
    THEN Has(res.context_updates, cond.key)
         /\ res.context_updates[cond.key] = cond.value
    ELSE IF cond.kind = "context"
    THEN Has(st, cond.key) /\ st[cond.key] = cond.value
    ELSE IF cond.kind = "cursor"
    THEN Get(Get(st, "scenario_state", EmptyDict), "current_component", "")
             = cond.value
    ELSE FALSE

\* the predicate of the condition raises when it is called; a cursor
\* predicate raises on a stored scenario_state that is not a dict
ConditionRaises(cond, res, st) ==
    \/ cond.kind = "raises"
    \/ /\ cond.kind = "cursor"
       /\ Has(st, "scenario_state") /\ st["scenario_state"] = NonDict

\* what a call returns when an exception leaves it
RaiseMark == "<raise>"

\* mutant: the exception of a raising predicate leaves the router
RECURSIVE CheckFromNoCatch(_, _, _, _)
CheckFromNoCatch(conds, i, res, st) ==
    IF i > Len(conds) THEN ""
    ELSE IF ConditionRaises(conds[i], res, st) THEN RaiseMark
    ELSE IF ConditionHolds(conds[i], res, st) THEN conds[i].target_component
    ELSE CheckFromNoCatch(conds, i + 1, res, st)

\* _check_routing_conditions from the i-th condition on: "" stands for None;
\* the except clause goes on with the next condition
RECURSIVE CheckFrom(_, _, _, _)
CheckFrom(conds, i, res, st) ==
    IF i > Len(conds) THEN ""
    ELSE IF ConditionRaises(conds[i], res, st)
    THEN CheckFrom(conds, i + 1, res, st)
    ELSE IF ConditionHolds(conds[i], res, st) THEN conds[i].target_component
    ELSE CheckFrom(conds, i + 1, res, st)

\* mutant: the last matching condition wins instead of the first
CheckRoutingConditionsLast(component, res, st) ==
    LET conds == component.routing_conditions
        hits == {i \in DOMAIN conds : ConditionHolds(conds[i], res, st)}
    IN  IF hits = {} THEN ""
        ELSE conds[CHOOSE i \in hits : \A j \in hits : j <= i].target_component

CheckRoutingConditions(component, res, st) ==
    CheckFrom(component.routing_conditions, 1, res, st)

\* mutant: the default next component is the component itself
GetDefaultNextComponentSelf(component) == component.id

\* _get_default_next_component
GetDefaultNextComponent(component) ==
    IF Len(component.next_components) > 0
    THEN component.next_components[1]
    ELSE ""

\* route_to_next_component
RouteToNextComponent(component, res, st) ==
    LET byCondition == CheckRoutingConditions(component, res, st)
    IN  IF byCondition # "" THEN byCondition
        ELSE GetDefaultNextComponent(component)

-----------------------------------------------------------------------------
(* ScenarioStateManager *)

\* bool(v) of a stored value
Truthy(v) == v # EmptyDict

\* _get_current_scenario_state raises (str has no copy) on a non-dict value
StateReadRaises(st) ==
    Has(st, "scenario_state") /\ st["scenario_state"] = NonDict

\* _get_current_scenario_state: a copy of the stored dict, {} if absent or empty
GetCurrentScenarioState(st) ==
    IF Has(st, "scenario_state") /\ Truthy(st["scenario_state"])
    THEN st["scenario_state"]
    ELSE EmptyDict

\* _create_new_scenario_state
NewScenarioState(sc) ==
    [scenario_name |-> sc.name,
     current_component |-> sc.entry_component,
     component_status |-> EmptyDict]

\* restore_state raises (str has no get) on a non-dict value
RestoreRaises(st) ==
    Has(st, "scenario_state") /\ st["scenario_state"] = NonDict

\* mutant: a stored state of this scenario resumes without a current component
RestoreBranchAnyComponent(sc, st) ==
    LET scenario_state == Get(st, "scenario_state", EmptyDict)
    IN  IF ~Truthy(scenario_state)
           \/ Get(scenario_state, "scenario_name", "") = ""
        THEN "fresh"
        ELSE IF scenario_state["scenario_name"] = sc.name
        THEN "resume"
        ELSE "fresh"

\* restore_state: which of its branches is taken
RestoreBranch(sc, st) ==
    LET scenario_state == Get(st, "scenario_state", EmptyDict)
    IN  IF ~Truthy(scenario_state)
           \/ Get(scenario_state, "scenario_name", "") = ""
        THEN "fresh"
        ELSE IF scenario_state["scenario_name"] = sc.name
                /\ Get(scenario_state, "current_component", "") # ""
        THEN "resume"
        ELSE "fresh"

\* restore_state: the session state it leaves
RestoreState(sc, st) ==
    IF RestoreBranch(sc, st) = "resume" THEN st
    ELSE ApplyDelta(st, [scenario_state |-> NewScenarioState(sc)])

\* _apply_state_delta: no event for empty updates, else the one event e
\* that carries them
StateDeltaEvents(state_updates, e) ==
    IF DOMAIN state_updates = {} THEN <<>> ELSE << e >>

\* update_component_status: the delta it hands to _apply_state_delta
UpdateComponentStatusDelta(st, component_id, status) ==
    LET current_state == GetCurrentScenarioState(st)
        statuses == Get(current_state, "component_status", EmptyDict)
    IN  [scenario_state |->
            Put(current_state, "component_status",
                Put(statuses, component_id, StatusValue(status)))]

\* update_component_status: the session state once its delta is applied
UpdateComponentStatus(st, component_id, status) ==
    ApplyDelta(st, UpdateComponentStatusDelta(st, component_id, status))

\* update_component_status up to its yield: current_state is a shallow copy,
\* so a component_status map that exists in the session state is the very
\* object the new status is written into
StatusWrittenInPlace(st, component_id, status) ==
    LET stored == Get(st, "scenario_state", EmptyDict)
    IN  IF Truthy(stored) /\ Has(stored, "component_status")
        THEN Put(st, "scenario_state",
                 Put(stored, "component_status",
                     Put(stored["component_status"], component_id,
                         StatusValue(status))))
        ELSE st

\* get_component_status; "" stands for None
GetComponentStatus(st, component_id) ==
    LET scenario_state == Get(st, "scenario_state", EmptyDict)
        status_str == Get(Get(scenario_state, "component_status", EmptyDict),
                          component_id, "")
    IN  IF status_str # "" THEN ComponentStatusOf(status_str) ELSE ""

\* update_current_component
UpdateCurrentComponentDelta(st, component_id) ==
    [scenario_state |->
        Put(GetCurrentScenarioState(st), "current_component", component_id)]

\* mutant: the delta of update_current_component is not applied
UpdateCurrentComponentUnapplied(st, component_id) == st

UpdateCurrentComponent(st, component_id) ==
    ApplyDelta(st, UpdateCurrentComponentDelta(st, component_id))

\* set_scenario_completed
\* mutant: set_scenario_completed starts from an empty scenario_state
SetScenarioCompletedDeltaBare(st, completed, reason) ==
    [scenario_state |->
        [completed |-> completed, completion_reason |-> reason]]

SetScenarioCompletedDelta(st, completed, reason) ==
    [scenario_state |->
        Put(Put(GetCurrentScenarioState(st), "completed", completed),
            "completion_reason", reason)]

SetScenarioCompleted(st, completed, reason) ==
    ApplyDelta(st, SetScenarioCompletedDelta(st, completed, reason))

\* is_scenario_completed
IsScenarioCompleted(st) ==
    Get(GetCurrentScenarioState(st), "completed", FALSE)

\* mutant: the loop always starts at the entry component
GetCurrentComponentIdEntry(st, default_entry) == default_entry

\* get_current_component_id
GetCurrentComponentId(st, default_entry) ==
    Get(Get(st, "scenario_state", EmptyDict), "current_component", default_entry)

-----------------------------------------------------------------------------
(* ContextManager *)

\* update_context raises when component_data holds a non-dict value
ContextReadRaises(st) ==
    Has(st, "component_data") /\ st["component_data"] = NonDict

\* update_context: component_data[component_id], then every key of the
\* context updates, in one delta (a later key overwrites an earlier one)
UpdateContextDelta(st, component_id, res) ==
    LET current_component_data ==
            IF Has(st, "component_data") /\ Truthy(st["component_data"])
            THEN st["component_data"] ELSE EmptyDict
        updated == Put(current_component_data, component_id, res.context_updates)
    IN  [k \in {"component_data"} \cup DOMAIN res.context_updates |->
            IF Has(res.context_updates, k)
            THEN res.context_updates[k] ELSE updated]

UpdateContext(st, component_id, res) ==
    ApplyDelta(st, UpdateContextDelta(st, component_id, res))

-----------------------------------------------------------------------------
(* StateCleanupManager *)

CleanupKeys == {"scenario_state", "component_data"}

\* mutant: component_data is left out of the cleanup keys
CleanupOnlyScenarioState(st) ==
    ApplyDelta(st, [k \in {"scenario_state"} \cap DOMAIN st |-> Tomb])

\* mutant: scenario_state is left out of the cleanup keys
CleanupDeltaDataOnly(st) ==
    [k \in {"component_data"} \cap DOMAIN st |-> Tomb]

\* mutant: a delete marker for every cleanup key, present or not
CleanupDeltaEveryKey(st) == [k \in CleanupKeys |-> Tomb]

\* cleanup_scenario_state: state_deltas, a delete marker for each cleanup
\* key that is present
CleanupDelta(st) ==
    LET keys_to_remove == CleanupKeys \cap DOMAIN st
    IN  [k \in keys_to_remove |-> Tomb]

\* cleanup_scenario_state: the session state once its delta, if any, is applied
CleanupScenarioState(st) == ApplyDelta(st, CleanupDelta(st))

-----------------------------------------------------------------------------
(* ScenarioAgent: _run_async_impl and _execute_scenario_loop *)

Entry(op, id, arg) == [op |-> op, id |-> id, arg |-> arg]

\* the events a component's agent produces in one run, in production order:
\* the model's call, then its response ("parsed" or "unparsed"); an agent
\* that raises has produced the first event only
ProducedEvents(name, how) ==
    IF how = "raise"
    THEN << [author |-> name, content |-> "call"] >>
    ELSE << [author |-> name, content |-> "call"],
            [author |-> name, content |-> how] >>

\* mutant: _execute_component yields the events in reverse order
RECURSIVE ForwardEventsReversed(_, _)
ForwardEventsReversed(events, i) ==
    IF i > Len(events) THEN <<>>
    ELSE ForwardEventsReversed(events, i + 1) \o << events[i] >>

\* _execute_component: async for event in component.agent.run_async(ctx):
\* yield event
RECURSIVE ForwardEvents(_, _)
ForwardEvents(events, i) ==
    IF i > Len(events) THEN <<>>
    ELSE << events[i] >> \o ForwardEvents(events, i + 1)

\* the event of cleanup_scenario_state, with the keys its delta deletes
CleanupEntry(st) ==
    [op |-> "cleanup", id |-> "", arg |-> "", keys |-> DOMAIN CleanupDelta(st)]

\* the part of the event stream a component's run contributes
ExecEntry(id, how) ==
    [op |-> "exec", id |-> id, arg |-> how,
     events |-> ForwardEvents(ProducedEvents(id, how), 1)]
Logged(e) == log' = Append(log, e)
\* the event e is yielded if the delta it carries is not empty
Emitted(state_updates, e) == log' = log \o StateDeltaEvents(state_updates, e)

\* scenario_state values another scenario's agent, sharing the session,
\* can leave behind between two invocations of this one
ForeignStates ==
    { EmptyDict,
      [scenario_name |-> "other", current_component |-> "B",
       component_status |-> [A |-> COMPLETED]],
      [current_component |-> "B"],
      [scenario_name |-> "", current_component |-> "B"] }

\* scenario_state values of this scenario's name without a resume point
StaleStates(sc) ==
    { [scenario_name |-> sc.name, component_status |-> [B |-> COMPLETED]],
      [scenario_name |-> sc.name, current_component |-> "",
       component_status |-> [B |-> COMPLETED]] }

\* prevEnd is kept until the next invocation has executed its first component;
\* after a foreign write, comp is the scenario name that was written
\* kind "suspended" is a suspension after a Running result, "suspended_other"
\* one after any other status
NoEnd == [kind |-> "none", comp |-> ""]

Init ==
    /\ scenario \in Scenarios
    /\ state = EmptyDict
    /\ pc = "idle"
    /\ cur = ""
    /\ result = NoResult
    /\ log = <<>>
    /\ prevEnd = NoEnd
    /\ invocations = 0

Ended == pc \in {"idle", "done", "raised"}

\* the host calls run_async on the agent
StartInvocation ==
    /\ Ended
    /\ invocations < MaxInvocations
    /\ invocations' = invocations + 1
    /\ pc' = "restore"
    /\ cur' = ""
    /\ result' = NoResult
    /\ log' = <<>>
    /\ UNCHANGED <<scenario, state, prevEnd>>

\* between two invocations the session is used by something else
HostWrite ==
    /\ Ended
    /\ \E v \in ForeignStates \cup StaleStates(scenario) :
          /\ state' = ApplyDelta(state, [scenario_state |-> v])
          /\ prevEnd' = [kind |-> "foreign", comp |-> Get(v, "scenario_name", "")]
    /\ pc' = "idle"
    /\ UNCHANGED <<invocations, scenario, cur, result, log>>

\* an exception leaves the try block of _run_async_impl
RaiseInto(e) ==
    /\ pc' = "exc_failure"
    /\ Logged(e)
    /\ UNCHANGED <<invocations, scenario, state, cur, result, prevEnd>>

\* Step 1: restore_state, then get_current_component_id
Restore ==
    /\ pc = "restore"
    /\ IF RestoreRaises(state)
       THEN RaiseInto(Entry("raise", "", "restore"))
       ELSE /\ state' = RestoreState(scenario, state)
            /\ cur' = GetCurrentComponentId(state', scenario.entry_component)
            /\ Logged(Entry(RestoreBranch(scenario, state), cur', ""))
            /\ pc' = "loop"
            /\ UNCHANGED <<invocations, scenario, result, prevEnd>>

\* mutant: an id without a component makes the loop raise
ComponentNotFoundRaises ==
    /\ pc = "loop"
    /\ cur # ""
    /\ cur \notin ComponentIds(scenario)
    /\ RaiseInto(Entry("raise", cur, "component_not_found"))

\* the loop finds no component of the current id
ComponentNotFound ==
    /\ pc = "loop"
    /\ cur # ""
    /\ cur \notin ComponentIds(scenario)
    /\ IF StateReadRaises(state)
       THEN RaiseInto(Entry("raise", cur, "set_completed"))
       ELSE /\ state' = SetScenarioCompleted(state, TRUE, "component_not_found")
            /\ Emitted(SetScenarioCompletedDelta(state, TRUE, "component_not_found"),
                       Entry("completed", "true", "component_not_found"))
            /\ pc' = "after_loop"
            /\ UNCHANGED <<invocations, scenario, cur, result, prevEnd>>

\* the component's agent runs; its json callback stores what it parsed
ExecuteComponent ==
    /\ pc = "loop"
    /\ cur \in ComponentIds(scenario)
    /\ \/ \E o \in Outputs :
            /\ state' = Put(state, OutputKey(cur), o)
            /\ result' = ComponentResultOf(ComponentById(scenario, cur), state')
            /\ Logged(ExecEntry(cur, "parsed"))
            /\ pc' = "update_status"
            /\ UNCHANGED <<invocations, scenario, cur, prevEnd>>
       \/ /\ result' = ComponentResultOf(ComponentById(scenario, cur), state)
          /\ Logged(ExecEntry(cur, "unparsed"))
          /\ pc' = "update_status"
          /\ UNCHANGED <<invocations, scenario, state, cur, prevEnd>>
       \/ RaiseInto(ExecEntry(cur, "raise"))

\* _update_execution_state, first delta: update_component_status runs up to
\* the yield of its event
UpdateStatus ==
    /\ pc = "update_status"
    /\ IF StateReadRaises(state)
       THEN RaiseInto(Entry("raise", cur, "update_status"))
       ELSE /\ state' = StatusWrittenInPlace(state, cur, result.status)
            /\ Emitted(UpdateComponentStatusDelta(state, cur, result.status),
                       Entry("status", cur, result.status))
            /\ pc' = "status_event"
            /\ prevEnd' = NoEnd
            /\ UNCHANGED <<invocations, scenario, cur, result>>

\* the event is consumed: the session applies the delta of the status update
ApplyStatusDelta ==
    /\ pc = "status_event"
    /\ state' = UpdateComponentStatus(state, cur, result.status)
    /\ pc' = "update_context"
    /\ UNCHANGED <<invocations, scenario, cur, result, log, prevEnd>>

\* _update_execution_state, second delta
UpdateContextStep ==
    /\ pc = "update_context"
    /\ IF ContextReadRaises(state)
       THEN RaiseInto(Entry("raise", cur, "update_context"))
       ELSE /\ state' = UpdateContext(state, cur, result)
            /\ Emitted(UpdateContextDelta(state, cur, result),
                       Entry("context", cur, ""))
            /\ pc' = IF result.status # RUNNING THEN "lookahead" ELSE "decide"
            /\ UNCHANGED <<invocations, scenario, cur, result, prevEnd>>

\* _update_execution_state, the lookahead: _get_next_component_id_preview
Lookahead ==
    /\ pc = "lookahead"
    /\ LET next_component ==
               RouteToNextComponent(ComponentById(scenario, cur), result, state)
       IN  IF next_component = ""
           THEN /\ pc' = "decide"
                /\ UNCHANGED <<invocations, scenario, state, cur, result, log, prevEnd>>
           ELSE IF StateReadRaises(state)
           THEN RaiseInto(Entry("raise", cur, "update_current"))
           ELSE /\ state' = UpdateCurrentComponent(state, next_component)
                /\ Emitted(UpdateCurrentComponentDelta(state, next_component),
                           Entry("current", next_component, ""))
                /\ pc' = "decide"
                /\ UNCHANGED <<invocations, scenario, cur, result, prevEnd>>

\* mutant: every status but Running dispatches the failure component
DetermineNextActionFailure(status) ==
    IF status = RUNNING THEN "terminate" ELSE "failure"

\* mutant: a status that is neither Running, Failed nor Completed advances
DetermineNextActionAdvances(status) ==
    IF status = RUNNING THEN "terminate"
    ELSE IF status = FAILED THEN "failure"
    ELSE "next"

\* _determine_next_action
DetermineNextAction(status) ==
    IF status = RUNNING THEN "terminate"
    ELSE IF status = FAILED THEN "failure"
    ELSE IF status = COMPLETED THEN "next"
    ELSE "terminate"

\* next_action "terminate": the scenario is suspended
Suspend ==
    /\ pc = "decide"
    /\ DetermineNextAction(result.status) = "terminate"
    /\ IF StateReadRaises(state)
       THEN RaiseInto(Entry("raise", cur, "set_completed"))
       ELSE /\ state' = SetScenarioCompleted(state, FALSE, "user_input_required")
            /\ Emitted(SetScenarioCompletedDelta(state, FALSE, "user_input_required"),
                       Entry("completed", "false", "user_input_required"))
            /\ pc' = "after_loop"
            /\ UNCHANGED <<invocations, scenario, cur, result, prevEnd>>

\* next_action "next": _get_next_component_id, then loop or complete
Advance ==
    /\ pc = "decide"
    /\ DetermineNextAction(result.status) = "next"
    /\ LET next_id ==
               RouteToNextComponent(ComponentById(scenario, cur), result, state)
       IN  IF next_id # ""
           THEN /\ cur' = next_id
                /\ pc' = "loop"
                /\ UNCHANGED <<invocations, scenario, state, result, log, prevEnd>>
           ELSE IF StateReadRaises(state)
           THEN RaiseInto(Entry("raise", cur, "set_completed"))
           ELSE /\ state' = SetScenarioCompleted(state, TRUE, "no_next_component")
                /\ Emitted(SetScenarioCompletedDelta(state, TRUE, "no_next_component"),
                           Entry("completed", "true", "no_next_component"))
                /\ pc' = "after_loop"
                /\ UNCHANGED <<invocations, scenario, cur, result, prevEnd>>

\* the id of the designated failure component of a scenario that has one;
\* it is held in scenario.failure_component, not in scenario.components
FailureId == "Z"

\* what the failure component's response can parse to
FailureOutputs == { [decision |-> "complete"] }

\* scenario.failure_component.agent.run_async(ctx): all the run leaves in
\* the session is the output its own callback writes
FailureRun(st, o) == Put(st, OutputKey(FailureId), o)

\* next_action "failure": _handle_component_failure runs the failure component
HandleComponentFailure ==
    /\ pc = "decide"
    /\ DetermineNextAction(result.status) = "failure"
    /\ IF scenario.failure_component
       THEN \/ /\ \E o \in FailureOutputs : state' = FailureRun(state, o)
               /\ Logged(Entry("failure_component", "", "returned"))
               /\ pc' = "failure_handled"
               /\ UNCHANGED <<invocations, scenario, cur, result, prevEnd>>
            \/ RaiseInto(Entry("failure_component", "", "raise"))
       ELSE /\ pc' = "failure_handled"
            /\ UNCHANGED <<invocations, scenario, state, cur, result, log, prevEnd>>

\* after the failure component: set_scenario_completed(True, "failure_handled")
SetFailureHandled ==
    /\ pc = "failure_handled"
    /\ IF StateReadRaises(state)
       THEN RaiseInto(Entry("raise", cur, "set_completed"))
       ELSE /\ state' = SetScenarioCompleted(state, TRUE, "failure_handled")
            /\ Emitted(SetScenarioCompletedDelta(state, TRUE, "failure_handled"),
                       Entry("completed", "true", "failure_handled"))
            /\ pc' = "after_loop"
            /\ UNCHANGED <<invocations, scenario, cur, result, prevEnd>>

\* Step 3, completed: cleanup_scenario_state, and the invocation returns
CleanupCompleted ==
    /\ pc = "after_loop"
    /\ ~StateReadRaises(state)
    /\ IsScenarioCompleted(state)
    /\ state' = CleanupScenarioState(state)
    /\ Emitted(CleanupDelta(state), CleanupEntry(state))
    /\ pc' = "done"
    /\ prevEnd' = [kind |-> "completed", comp |-> cur]
    /\ UNCHANGED <<invocations, scenario, cur, result>>

\* Step 3, not completed: the invocation returns, the state is kept
EndSuspended ==
    /\ pc = "after_loop"
    /\ ~StateReadRaises(state)
    /\ ~IsScenarioCompleted(state)
    /\ pc' = "done"
    /\ prevEnd' = [kind |-> IF result.status = RUNNING
                             THEN "suspended" ELSE "suspended_other",
                   comp |-> cur]
    /\ UNCHANGED <<invocations, scenario, state, cur, result, log>>

\* except: _handle_scenario_failure runs the failure component
ExceptFailure ==
    /\ pc = "exc_failure"
    /\ IF scenario.failure_component
       THEN \/ /\ \E o \in FailureOutputs : state' = FailureRun(state, o)
               /\ Logged(Entry("failure_component", "", "returned"))
               /\ pc' = "exc_cleanup"
               /\ UNCHANGED <<invocations, scenario, cur, result, prevEnd>>
            \/ /\ Logged(Entry("failure_component", "", "raise"))
               /\ pc' = "raised"
               /\ prevEnd' = [kind |-> "raised", comp |-> cur]
               /\ UNCHANGED <<invocations, scenario, state, cur, result>>
       ELSE /\ pc' = "exc_cleanup"
            /\ UNCHANGED <<invocations, scenario, state, cur, result, log, prevEnd>>

\* except: cleanup_scenario_state, then the exception is re-raised
ExceptCleanup ==
    /\ pc = "exc_cleanup"
    /\ state' = CleanupScenarioState(state)
    /\ Emitted(CleanupDelta(state), CleanupEntry(state))
    /\ pc' = "raised"
    /\ prevEnd' = [kind |-> "raised", comp |-> cur]
    /\ UNCHANGED <<invocations, scenario, cur, result>>

Next ==
    \/ StartInvocation
    \/ HostWrite
    \/ Restore
    \/ ComponentNotFound
    \/ ExecuteComponent
    \/ UpdateStatus
    \/ ApplyStatusDelta
    \/ UpdateContextStep
    \/ Lookahead
    \/ Suspend
    \/ Advance
    \/ HandleComponentFailure
    \/ SetFailureHandled
    \/ CleanupCompleted
    \/ EndSuspended
    \/ ExceptFailure
    \/ ExceptCleanup

Spec == Init /\ [][Next]_vars

-----------------------------------------------------------------------------
(* The engine under the scheduling of its host: an invocation that has
   started is driven until it returns or raises *)

\* the number of invocations a behaviour of the driven engine follows
MaxDriven == 1

\* the host calls run_async, at most MaxDriven times
StartDriven ==
    /\ invocations < MaxDriven
    /\ StartInvocation

\* one step of _run_async_impl
AgentStep ==
    \/ Restore
    \/ ComponentNotFound
    \/ ExecuteComponent
    \/ UpdateStatus
    \/ ApplyStatusDelta
    \/ UpdateContextStep
    \/ Lookahead
    \/ Suspend
    \/ Advance
    \/ HandleComponentFailure
    \/ SetFailureHandled
    \/ CleanupCompleted
    \/ EndSuspended
    \/ ExceptFailure
    \/ ExceptCleanup

NextDriven ==
    \/ StartDriven
    \/ HostWrite
    \/ AgentStep

\* the host consumes every event of the generator, so the code goes on
SpecDriven == Init /\ [][NextDriven]_vars /\ WF_vars(AgentStep)

-----------------------------------------------------------------------------
(* route_to_next_component called on its own: one component and one result, *)
(* in sessions that differ in what earlier components left behind           *)

\* the number of calls a behaviour follows
MaxCalls == 2

\* the global namespace as earlier components' outputs left it
LeftoverSessions ==
    {EmptyDict} \cup {o \in Outputs : DOMAIN o \cap ReservedKeys = {}}

InitRoute ==
    /\ scenario \in Scenarios
    /\ cur \in ComponentIds(scenario)
    /\ \E o \in Outputs, g \in LeftoverSessions :
          /\ result = [status |-> DetermineStatus(o), context_updates |-> o]
          /\ state = UpdateContext(g, cur, result)
    /\ pc = "route"
    /\ log = <<>>
    /\ prevEnd = NoEnd
    /\ invocations = 0

\* the router is called for the component, its result and the session
RouteCall ==
    /\ pc = "route"
    /\ Len(log) < MaxCalls
    /\ log' = Append(log,
          [op |-> "route", st |-> state,
           target |-> RouteToNextComponent(ComponentById(scenario, cur),
                                           result, state)])
    /\ UNCHANGED <<invocations, scenario, state, pc, cur, result, prevEnd>>

\* the same result is produced in a session with other leftovers
SessionChange ==
    /\ pc = "route"
    /\ \E g \in LeftoverSessions :
          /\ state' = UpdateContext(g, cur, result)
          /\ state' # state
    /\ UNCHANGED <<invocations, scenario, pc, cur, result, log, prevEnd>>

NextRoute ==
    \/ RouteCall
    \/ SessionChange

SpecRoute == InitRoute /\ [][NextRoute]_vars

-----------------------------------------------------------------------------
(* ScenarioAgent.__init__: construction from a scenario definition *)

\* ComponentValidator.validate_component_exists
ValidateComponentExists(component_id, sc) == component_id \in ComponentIds(sc)

\* mutant: the missing default-next ids are listed before the condition targets
MissingComponentsNextsFirst(component, sc) ==
    LET conds == component.routing_conditions
        nexts == component.next_components
    IN  SelectSeq(nexts, LAMBDA t : ~ValidateComponentExists(t, sc))
        \o SelectSeq([i \in DOMAIN conds |-> conds[i].target_component],
                     LAMBDA t : ~ValidateComponentExists(t, sc))

\* ComponentValidator.validate_routing_conditions: the missing targets
MissingComponents(component, sc) ==
    LET conds == component.routing_conditions
        nexts == component.next_components
    IN  SelectSeq([i \in DOMAIN conds |-> conds[i].target_component],
                  LAMBDA t : ~ValidateComponentExists(t, sc))
        \o SelectSeq(nexts, LAMBDA t : ~ValidateComponentExists(t, sc))

\* mutant: a missing routing target fails the validation too
ValidateScenarioStrict(sc) ==
    IF ~ValidateComponentExists(sc.entry_component, sc) THEN "ValueError"
    ELSE IF \E i \in DOMAIN sc.components :
               MissingComponents(sc.components[i], sc) # <<>>
    THEN "ValueError"
    ELSE "ok"

\* _validate_scenario: raises for a missing entry component only
ValidateScenario(sc) ==
    IF ~ValidateComponentExists(sc.entry_component, sc) THEN "ValueError"
    ELSE "ok"

\* the components with missing targets, each one a logged warning that
\* carries the list of its missing ids
ValidationWarnings(sc) ==
    SelectSeq([i \in DOMAIN sc.components |->
                  Entry("warning", sc.components[i].id,
                        MissingComponents(sc.components[i], sc))],
              LAMBDA e : e.arg # <<>>)

\* the number of agents constructed from one definition
MaxConstructions == 2

\* scenario definitions a caller can pass to the constructor
CandidateNexts == {<<>>, <<"B">>, <<"Z">>, <<"Z", "B">>}
CandidateConditions ==
    {<<>>, <<FieldCond("Z", "field", "x")>>,
     <<FieldCond("B", "field", "x"), ContextCond("Z", "field", "y")>>}
CandidateComponents ==
    {<<>>}
    \cup {<<Component("A", n, c)>> :
              n \in CandidateNexts, c \in CandidateConditions}
    \cup {<<Component("A", n, c), Component("B", <<>>, <<>>)>> :
              n \in CandidateNexts, c \in CandidateConditions}
CandidateScenarios ==
    {[name |-> "candidate", components |-> cs,
      entry_component |-> e, failure_component |-> f] :
        cs \in CandidateComponents, e \in {"A", "B", "Z"}, f \in BOOLEAN}

InitConstruct ==
    /\ scenario \in CandidateScenarios
    /\ state = EmptyDict
    /\ pc = "new"
    /\ cur = ""
    /\ result = NoResult
    /\ log = <<>>
    /\ prevEnd = NoEnd
    /\ invocations = 0

\* ScenarioAgent(scenario): the validation raises, or the agent exists; the
\* log holds, per construction, the outcome and the warnings
Construct ==
    /\ pc \in {"new", "idle", "construct_failed"}
    /\ Len(log) < MaxConstructions
    /\ IF ValidateScenario(scenario) = "ValueError"
       THEN /\ pc' = "construct_failed"
            /\ Logged(Entry("construct", "ValueError", <<>>))
       ELSE /\ pc' = "idle"
            /\ Logged(Entry("construct", "ok", ValidationWarnings(scenario)))
    /\ UNCHANGED <<invocations, scenario, state, cur, result, prevEnd>>

NextConstruct == Construct

SpecConstruct == InitConstruct /\ [][NextConstruct]_vars

-----------------------------------------------------------------------------
(* create_component_result called on its own, for outputs with any decision *)

\* values of the decision field: the three known ones and others
StatusDecisions == {"complete", "continue", "failed", "done", "Complete", ""}

\* structured outputs: empty, with and without a decision, with other fields
StatusOutputs ==
    {EmptyDict}
    \cup {[decision |-> d] : d \in StatusDecisions}
    \cup {[decision |-> d, field |-> f] : d \in StatusDecisions, f \in {"x", "y"}}
    \cup {[field |-> f] : f \in {"x", "y"}}

InitResult ==
    /\ scenario \in Scenarios
    /\ cur \in ComponentIds(scenario)
    /\ state \in {EmptyDict}
                 \cup {Put(EmptyDict, OutputKey(cur), o) : o \in StatusOutputs}
    /\ pc = "executed"
    /\ result = NoResult
    /\ log = <<>>
    /\ prevEnd = NoEnd
    /\ invocations = 0

\* result = component.agent.create_component_result(ctx)
CreateResult ==
    /\ pc = "executed"
    /\ result' = CreateComponentResult(state, cur)
    /\ pc' = "created"
    /\ UNCHANGED <<invocations, scenario, state, cur, log, prevEnd>>

\* mutant: a decision outside the map is taken as running
FromDecisionDefaultRunning(decision) ==
    LET decision_map == [complete |-> COMPLETED, continue |-> RUNNING,
                         failed |-> FAILED]
    IN  Get(decision_map, decision, RUNNING)

\* StatusHelper.from_decision: decision_map.get(decision, COMPLETED)
FromDecision(decision) ==
    LET decision_map == [complete |-> COMPLETED, continue |-> RUNNING,
                         failed |-> FAILED]
    IN  Get(decision_map, decision, COMPLETED)

\* the decision _determine_status reads from the output stored for cur
DecisionRead(st, id) == Get(Get(st, OutputKey(id), EmptyDict), "decision", "")

\* StatusHelper.from_decision is called with the decision of the same output
FromDecisionCall ==
    /\ pc = "created"
    /\ LET decision == DecisionRead(state, cur)
       IN  Logged(Entry("from_decision", decision, FromDecision(decision)))
    /\ pc' = "compared"
    /\ UNCHANGED <<invocations, scenario, state, cur, result, prevEnd>>

NextResult ==
    \/ CreateResult
    \/ FromDecisionCall

SpecResult == InitResult /\ [][NextResult]_vars

-----------------------------------------------------------------------------
(* cleanup_scenario_state alone, on the sessions it can be handed *)

\* the number of cleanup calls a behaviour follows
MaxCleanups == 2

\* what a session can hold under scenario_state, under component_data and
\* under the other keys
WorkflowParts ==
    { EmptyDict,
      [scenario_state |-> EmptyDict],
      [scenario_state |-> NonDict],
      [scenario_state |-> NewScenarioState(ChainScenario)],
      [scenario_state |->
          [scenario_name |-> "chain", current_component |-> "B",
           component_status |-> [A |-> "completed"], completed |-> TRUE,
           completion_reason |-> "no_next_component"]] }
DataParts ==
    { EmptyDict,
      [component_data |-> EmptyDict],
      [component_data |-> NonDict],
      [component_data |-> [A |-> [decision |-> "complete"]]] }
OtherParts ==
    { EmptyDict,
      [field |-> "y"],
      [A_output |-> [decision |-> "complete"], decision |-> "complete"],
      [A_output |-> [field |-> "y"], B_output |-> [decision |-> "failed"],
       field |-> "y", decision |-> "failed"] }

CleanupSessions ==
    { ApplyDelta(ApplyDelta(w, d), o) :
          w \in WorkflowParts, d \in DataParts, o \in OtherParts }

InitCleanup ==
    /\ scenario = ChainScenario
    /\ state \in CleanupSessions
    /\ pc = "to_clean"
    /\ cur = ""
    /\ result = NoResult
    /\ log = <<>>
    /\ prevEnd = NoEnd
    /\ invocations = 0

\* cleanup_scenario_state(ctx, invocation_id) is called and its events consumed
CleanupCall ==
    /\ pc \in {"to_clean", "cleaned"}
    /\ invocations < MaxCleanups
    /\ invocations' = invocations + 1
    /\ state' = CleanupScenarioState(state)
    /\ Emitted(CleanupDelta(state), CleanupEntry(state))
    /\ pc' = "cleaned"
    /\ UNCHANGED <<scenario, cur, result, prevEnd>>

NextCleanup == CleanupCall

SpecCleanup == InitCleanup /\ [][NextCleanup]_vars

-----------------------------------------------------------------------------
(* The order tools: cancel_order of order/data.py and of agent.py, and
   create_order. In this specification state holds the module's list
   _orders, log the results the calls returned, pc which module is used and
   invocations the number of calls made. *)

\* the number of tool calls a behaviour follows
MaxOrderCalls == 3

\* _orders of order/data.py and of agent.py as the modules define them (item
\* names in English, prices left out)
SharedOrders ==
    << [id |-> "ORD001", item |-> "phone", status |-> "processing"],
       [id |-> "ORD002", item |-> "laptop", status |-> "shipped"],
       [id |-> "ORD003", item |-> "tablet", status |-> "processing"] >>
DemoOrders ==
    << [id |-> "A001", item |-> "earbuds", status |-> "processing"],
       [id |-> "A002", item |-> "charger", status |-> "processing"] >>

\* the order ids a call is made with
OrderIdInputs == {"ORD001", "ORD002", "ORD004", "A001", "A002", ""}

\* mutant: an order is cancelled whatever its status
RECURSIVE CancelOrderAnyStatus(_, _, _)
CancelOrderAnyStatus(orders, i, order_id) ==
    IF i > Len(orders) THEN [orders |-> orders, status |-> "error"]
    ELSE IF orders[i].id = order_id
    THEN [orders |-> [orders EXCEPT ![i].status = "cancelled"],
          status |-> "success"]
    ELSE CancelOrderAnyStatus(orders, i + 1, order_id)

\* cancel_order of order/data.py, from the i-th order on: the first order of
\* the id decides; the list it leaves and the status it returns
RECURSIVE CancelOrder(_, _, _)
CancelOrder(orders, i, order_id) ==
    IF i > Len(orders) THEN [orders |-> orders, status |-> "error"]
    ELSE IF orders[i].id = order_id
    THEN IF orders[i].status = "processing"
         THEN [orders |-> [orders EXCEPT ![i].status = "cancelled"],
               status |-> "success"]
         ELSE [orders |-> orders, status |-> "error"]
    ELSE CancelOrder(orders, i + 1, order_id)

\* cancel_order of agent.py: the first order of the id that is processing
RECURSIVE CancelOrderDemo(_, _, _)
CancelOrderDemo(orders, i, order_id) ==
    IF i > Len(orders) THEN [orders |-> orders, status |-> "error"]
    ELSE IF orders[i].id = order_id /\ orders[i].status = "processing"
    THEN [orders |-> [orders EXCEPT ![i].status = "cancelled"],
          status |-> "success"]
    ELSE CancelOrderDemo(orders, i + 1, order_id)

\* f"ORD{len(_orders) + 1:03d}", for the lengths the model reaches
NewOrderId(n) ==
    CASE n = 1 -> "ORD001" [] n = 2 -> "ORD002" [] n = 3 -> "ORD003"
      [] n = 4 -> "ORD004" [] n = 5 -> "ORD005" [] n = 6 -> "ORD006"
      [] n = 7 -> "ORD007" [] OTHER -> "ORD008"

\* create_order
CreateOrder(orders, item) ==
    Append(orders, [id |-> NewOrderId(Len(orders) + 1), item |-> item,
                    status |-> "processing"])

InitOrders ==
    /\ \/ pc = "orders_data" /\ state = SharedOrders
       \/ pc = "orders_demo" /\ state = DemoOrders
    /\ scenario = ChainScenario
    /\ cur = ""
    /\ result = NoResult
    /\ log = <<>>
    /\ prevEnd = NoEnd
    /\ invocations = 0

\* the model calls the tool cancel_order(order_id)
CancelOrderCall ==
    /\ pc \in {"orders_data", "orders_demo"}
    /\ invocations < MaxOrderCalls
    /\ \E order_id \in OrderIdInputs :
          LET r == IF pc = "orders_data"
                   THEN CancelOrder(state, 1, order_id)
                   ELSE CancelOrderDemo(state, 1, order_id)
          IN  /\ state' = r.orders
              /\ Logged(Entry("cancel_order", order_id, r.status))
    /\ invocations' = invocations + 1
    /\ UNCHANGED <<scenario, pc, cur, result, prevEnd>>

\* the model calls the tool create_order(item, price)
CreateOrderCall ==
    /\ pc = "orders_data"
    /\ invocations < MaxOrderCalls
    /\ state' = CreateOrder(state, "watch")
    /\ Logged(Entry("create_order", state'[Len(state')].id, "success"))
    /\ invocations' = invocations + 1
    /\ UNCHANGED <<scenario, pc, cur, result, prevEnd>>

NextOrders ==
    \/ CancelOrderCall
    \/ CreateOrderCall

SpecOrders == InitOrders /\ [][NextOrders]_vars

-----------------------------------------------------------------------------
(* TravelPlannerAgent of travel_planner.py. In this specification state is
   ctx.session.state, pc the position of _run_async_impl, prevEnd.kind how
   the try block was left and log the starts and ends of the invocations. *)

\* the number of invocations of the planner a behaviour follows
MaxPlannerRuns == 2

STATE_KEYS_TO_CLEANUP ==
    {"target_city", "city_selection_complete", "city_input_agent_output",
     "city_info"}

CityNames == {"Paris", " Seoul ", "  ", ""}
\* str.strip on the city names of the model
Strip(s) == CASE s = " Seoul " -> "Seoul" [] s = "  " -> "" [] OTHER -> s

\* what extract_user_message parses out of the model's response
CityDecisions ==
    [decision : {"complete", "continue", "maybe"},
     confidence : {"high", "medium", "low"},
     city_name : CityNames] \cup {NonDict}

\* CitySelectionDecision.model_validate accepts the value
ModelValidates(d) ==
    /\ d # NonDict
    /\ d.decision \in {"complete", "continue"}
    /\ d.confidence \in {"high", "medium", "low"}

\* session states the planner is first invoked on: any part of a session an
\* earlier conversation left, or a target_city that is present and empty
StaleSession ==
    [target_city |-> "Tokyo", city_selection_complete |-> TRUE,
     city_input_agent_output |->
         [decision |-> "complete", confidence |-> "high", city_name |-> "Tokyo"],
     city_info |-> "about Tokyo", user_name |-> "kim"]
PlannerSessions ==
    {[k \in K |-> StaleSession[k]] : K \in SUBSET DOMAIN StaleSession}
        \cup {[target_city |-> ""]}

\* _is_city_already_selected: bool(state.get("target_city"))
IsCityAlreadySelected(st) == Has(st, "target_city") /\ st["target_city"] # ""

\* _process_city_decision: the session state it leaves
ProcessCityDecision(st) ==
    IF ~Has(st, "city_input_agent_output") THEN st
    ELSE LET d == st["city_input_agent_output"]
         IN  IF ~ModelValidates(d) THEN st
             ELSE IF /\ d.decision = "complete"
                     /\ d.confidence \in {"high", "medium"}
                     /\ Strip(d.city_name) # ""
                  THEN Put(Put(st, "target_city", Strip(d.city_name)),
                           "city_selection_complete", TRUE)
                  ELSE st

\* mutant: the cleanup leaves target_city in place
PlannerCleanupDeltaKeepsCity(st) ==
    [k \in (STATE_KEYS_TO_CLEANUP \ {"target_city"}) \cap DOMAIN st |-> Tomb]

\* _cleanup_state: state_deltas, None for each cleanup key that is present
PlannerCleanupDelta(st) ==
    [k \in STATE_KEYS_TO_CLEANUP \cap DOMAIN st |-> Tomb]

\* the session consumes the cleanup event: a None in the delta removes the key
PlannerCleanupState(st) ==
    [k \in (DOMAIN st) \ DOMAIN PlannerCleanupDelta(st) |-> st[k]]

InitPlanner ==
    /\ state \in PlannerSessions
    /\ pc = "tp_idle"
    /\ scenario = ChainScenario
    /\ cur = ""
    /\ result = NoResult
    /\ log = <<>>
    /\ prevEnd = NoEnd
    /\ invocations = 0

\* _run_async_impl up to the resume check
PlannerStart ==
    /\ pc = "tp_idle"
    /\ invocations < MaxPlannerRuns
    /\ invocations' = invocations + 1
    /\ IF IsCityAlreadySelected(state)
       THEN pc' = "tp_info" /\ Logged(Entry("planner_start", "", "resume"))
       ELSE pc' = "tp_input" /\ Logged(Entry("planner_start", "", "input"))
    /\ prevEnd' = NoEnd
    /\ UNCHANGED <<scenario, state, cur, result>>

\* _ensure_city_selection: city_input_agent runs; its callback stores the
\* parsed decision, or stores nothing, or the agent raises
CityInputRun ==
    /\ pc = "tp_input"
    /\ \/ \E d \in CityDecisions :
             /\ state' = Put(state, "city_input_agent_output", d)
             /\ pc' = "tp_decide"
             /\ UNCHANGED prevEnd
       \/ /\ pc' = "tp_decide"
          /\ UNCHANGED <<state, prevEnd>>
       \/ /\ pc' = "tp_cleanup"
          /\ prevEnd' = [kind |-> "raised", comp |-> ""]
          /\ UNCHANGED state
    /\ UNCHANGED <<scenario, cur, result, log, invocations>>

\* _process_city_decision, then the check of the selection: the turn ends
\* when no city is selected
CityDecisionStep ==
    /\ pc = "tp_decide"
    /\ state' = ProcessCityDecision(state)
    /\ IF IsCityAlreadySelected(state')
       THEN pc' = "tp_info" /\ UNCHANGED prevEnd
       ELSE pc' = "tp_cleanup" /\ prevEnd' = [kind |-> "early", comp |-> ""]
    /\ UNCHANGED <<scenario, cur, result, log, invocations>>

\* _provide_city_info: city_info_agent runs and its output_key is written,
\* or it produces no text, or it raises
ProvideCityInfo ==
    /\ pc = "tp_info"
    /\ \/ /\ state' = Put(state, "city_info", "about " \o state["target_city"])
          /\ prevEnd' = [kind |-> "completed", comp |-> ""]
       \/ /\ prevEnd' = [kind |-> "completed", comp |-> ""]
          /\ UNCHANGED state
       \/ /\ prevEnd' = [kind |-> "raised", comp |-> ""]
          /\ UNCHANGED state
    /\ pc' = "tp_cleanup"
    /\ UNCHANGED <<scenario, cur, result, log, invocations>>

\* the finally block: _cleanup_state's event is yielded and consumed, then
\* the invocation ends the way the try block was left
PlannerCleanup ==
    /\ pc = "tp_cleanup"
    /\ state' = PlannerCleanupState(state)
    /\ Logged(Entry("planner_end", "", prevEnd.kind))
    /\ pc' = "tp_idle"
    /\ UNCHANGED <<scenario, cur, result, prevEnd, invocations>>

NextPlanner ==
    \/ PlannerStart
    \/ CityInputRun
    \/ CityDecisionStep
    \/ ProvideCityInfo
    \/ PlannerCleanup

SpecPlanner == InitPlanner /\ [][NextPlanner]_vars

-----------------------------------------------------------------------------
(* What an invocation did, read off its log *)

OpsOf(l, op) == SelectSeq(l, LAMBDA e : e.op = op)
\* the executions of graph components, in order
Execs == OpsOf(log, "exec")
\* the runs of the failure component, in order
FailureRuns == OpsOf(log, "failure_component")
\* the positions of the log holding an entry of this kind
Positions(op) == {i \in DOMAIN log : log[i].op = op}
\* the invocation has ended, by returning or by raising
InvocationEnded == pc \in {"done", "raised"}
\* set_scenario_completed(True, ...) was called in this invocation
SetCompletedTrue == \E i \in Positions("completed") : log[i].id = "true"
\* a component step or a state read raised in this invocation
Raised == \E i \in DOMAIN log : log[i].arg = "raise" \/ log[i].op = "raise"
\* some executed component's derived status was Failed
StatusFailed == \E i \in Positions("status") : log[i].arg = FAILED
WorkflowKeysAbsent ==
    ~Has(state, "scenario_state") /\ ~Has(state, "component_data")

-----------------------------------------------------------------------------
(* Claims *)

\* C1: an invocation that ends after a component whose derived status is
\* Running leaves scenario_state.current_component equal to that component,
\* completed false with reason user_input_required, and the next invocation
\* executes that same component first.
C1_RunningResumesSameComponent ==
    /\ (pc = "done" /\ result.status = RUNNING) =>
          /\ Has(state, "scenario_state")
          /\ Get(state["scenario_state"], "current_component", "") = cur
          /\ Get(state["scenario_state"], "completed", TRUE) = FALSE
          /\ Get(state["scenario_state"], "completion_reason", "")
                = "user_input_required"
    /\ (~Ended /\ prevEnd.kind = "suspended" /\ Len(Execs) > 0) =>
          Execs[1].id = prevEnd.comp

\* C2: an invocation that set completed=true has emitted the cleanup delta
\* after it by the time it ends, and scenario_state and component_data are
\* then absent from the session state.
C2_CompletedIsCleanedUp ==
    (InvocationEnded /\ SetCompletedTrue) =>
        /\ \E i \in Positions("completed") : \E j \in Positions("cleanup") :
              log[i].id = "true" /\ i < j
        /\ WorkflowKeysAbsent

C2_Witness ==
    /\ pc = "done"
    /\ SetCompletedTrue
    /\ Len(OpsOf(log, "context")) > 0
    /\ log[Len(log)].op = "cleanup"

\* C3: whenever an invocation ends by raising, scenario_state and
\* component_data are absent from the session state.
C3_RaisedIsCleanedUp ==
    pc = "raised" => WorkflowKeysAbsent

\* C4: in an invocation in which a component's status is Failed or an
\* exception leaves the loop, the failure component (if declared) is started
\* exactly once, never twice.
C4_FailureComponentOnce ==
    /\ Len(FailureRuns) <= 1
    /\ (InvocationEnded /\ scenario.failure_component
        /\ (StatusFailed \/ Raised)) => Len(FailureRuns) = 1

\* C5: when a component returns Failed and a failure component is declared
\* (and its runs return), it executes, then completed=true with reason
\* failure_handled is set, then cleanup runs, and no component of the graph
\* executes after the failed one in that invocation.
C5_FailedDispatchesFailureComponent ==
    /\ \A i \in Positions("status") : \A j \in Positions("exec") :
          log[i].arg = FAILED => j < i
    /\ (InvocationEnded /\ StatusFailed /\ scenario.failure_component
        /\ \A r \in Positions("failure_component") : log[r].arg = "returned") =>
          \E f \in Positions("failure_component") :
          \E c \in Positions("completed") :
          \E k \in Positions("cleanup") :
              /\ log[f].arg = "returned"
              /\ log[c] = Entry("completed", "true", "failure_handled")
              /\ f < c /\ c < k

\* the ids met by following default-next edges from id
RECURSIVE ChainFrom(_, _)
ChainFrom(sc, id) ==
    IF id \notin ComponentIds(sc) THEN <<>>
    ELSE <<id>> \o ChainFrom(sc, GetDefaultNextComponent(ComponentById(sc, id)))

\* every component of the scenario is linked by default-next edges only
IsDefaultChain(sc) ==
    /\ \A i \in DOMAIN sc.components :
          /\ sc.components[i].routing_conditions = <<>>
          /\ GetDefaultNextComponent(sc.components[i]) \in ComponentIds(sc) \cup {""}
    /\ Len(ChainFrom(sc, sc.entry_component)) = Len(sc.components)

\* every component executed in this invocation returned with status Completed
AllReturnedCompleted ==
    /\ Len(Execs) > 0
    /\ \A i \in Positions("exec") : log[i].arg # "raise"
    /\ \A i \in Positions("status") : log[i].arg = COMPLETED

\* C6: in a chain linked by default-next edges only, an invocation that starts
\* at the entry and in which every component returns Completed executes each
\* component once in chain order, ends with completed=true and reason
\* no_next_component, and leaves scenario_state and component_data absent.
C6_ChainRunsToCompletion ==
    (InvocationEnded /\ IsDefaultChain(scenario) /\ log[1].op = "fresh"
     /\ AllReturnedCompleted) =>
        /\ pc = "done"
        /\ [i \in DOMAIN Execs |-> Execs[i].id]
              = ChainFrom(scenario, scenario.entry_component)
        /\ \E i \in Positions("completed") :
              log[i] = Entry("completed", "true", "no_next_component")
        /\ WorkflowKeysAbsent

\* C7: an invocation that ends without completed=true emitted no cleanup
\* delta; scenario_state, with its current_component and component_status,
\* and component_data are still present when it ends.
C7_SuspendedKeepsState ==
    (pc = "done" /\ ~SetCompletedTrue) =>
        /\ Positions("cleanup") = {}
        /\ Has(state, "scenario_state")
        /\ Has(state["scenario_state"], "current_component")
        /\ Has(state["scenario_state"], "component_status")
        /\ Has(state, "component_data")

\* C8: restore_state initializes fresh state exactly when the stored
\* scenario_state is absent, empty, has no scenario_name, names another
\* scenario or has an empty current_component; the fresh state names this
\* scenario, points at the entry component, has an empty component_status
\* and reads as not completed.
C8_RestoreFreshExactlyWhen ==
    [][(pc = "restore" /\ ~RestoreRaises(state)) =>
          LET stored == Get(state, "scenario_state", EmptyDict)
              expected ==
                  \/ ~Has(state, "scenario_state")
                  \/ stored = EmptyDict
                  \/ ~Has(stored, "scenario_name")
                  \/ stored["scenario_name"] = ""
                  \/ stored["scenario_name"] # scenario.name
                  \/ ~Has(stored, "current_component")
                  \/ stored["current_component"] = ""
              fresh == log'[Len(log')].op = "fresh"
          IN  /\ fresh <=> expected
              /\ fresh =>
                    /\ state'["scenario_state"] =
                          [scenario_name |-> scenario.name,
                           current_component |-> scenario.entry_component,
                           component_status |-> EmptyDict]
                    /\ ~IsScenarioCompleted(state')
                    /\ cur' = scenario.entry_component
              /\ ~fresh => state' = state
      ]_vars

\* a stored state of this scenario's name without a current component was
\* replaced by a fresh one
C8_Witness ==
    /\ pc = "loop"
    /\ prevEnd = [kind |-> "foreign", comp |-> scenario.name]
    /\ log = <<Entry("fresh", scenario.entry_component, "")>>
    /\ state["scenario_state"] = NewScenarioState(scenario)

\* C9: when the stored scenario_state has this scenario's name and a
\* non-empty current_component, restore_state changes nothing, and the first
\* component the loop executes is the stored current_component.
C9_ResumeKeepsState ==
    /\ [][(pc = "restore" /\ ~RestoreRaises(state)
           /\ Has(state, "scenario_state")
           /\ Get(state["scenario_state"], "scenario_name", "") = scenario.name
           /\ Get(state["scenario_state"], "current_component", "") # "") =>
              /\ state' = state
              /\ log' = <<Entry("resume", state["scenario_state"]["current_component"], "")>>
              /\ cur' = state["scenario_state"]["current_component"]
         ]_vars
    /\ []((Len(log) > 0 /\ log[1].op = "resume" /\ Len(Execs) > 0) =>
              Execs[1].id = log[1].id)

\* an invocation resumed at a component other than the entry, with the status
\* of an earlier invocation still stored
C9_Witness ==
    /\ pc = "update_status"
    /\ Len(log) = 2
    /\ log[1].op = "resume"
    /\ Execs[1].id # scenario.entry_component
    /\ Has(state["scenario_state"]["component_status"], scenario.entry_component)

\* the positions of the component's conditions whose predicate is true
Matching(component, res, st) ==
    {i \in DOMAIN component.routing_conditions :
        ConditionHolds(component.routing_conditions[i], res, st)}
Least(S) == CHOOSE i \in S : \A j \in S : i <= j

\* C10 as stated: the router returns the same target on every call with the
\* same result and the same declared conditions.
C10_SameResultSameTarget ==
    pc = "route" =>
        \A i, j \in DOMAIN log : log[i].target = log[j].target

\* C10, amended: every call returns the target of the first routing
\* condition, in declared order, whose predicate is true, whatever later
\* conditions match and whatever the default-next list holds; calls with the
\* same result, the same session state and the same declared conditions
\* return the same target.
C10_FirstMatchWins ==
    pc = "route" =>
        LET component == ComponentById(scenario, cur)
        IN  \A i \in DOMAIN log :
              /\ LET matching == Matching(component, result, log[i].st)
                 IN  matching # {} =>
                       log[i].target =
                         component.routing_conditions[Least(matching)].target_component
              /\ \A j \in DOMAIN log :
                    log[i].st = log[j].st => log[i].target = log[j].target

\* a call in which two conditions with different targets match, and the
\* default-next id differs from the first one's target
C10_Witness ==
    /\ pc = "route"
    /\ Len(log) > 0
    /\ LET component == ComponentById(scenario, cur)
           matching == Matching(component, result, log[1].st)
       IN  /\ \E i, j \in matching :
                 /\ i < j
                 /\ component.routing_conditions[i].target_component
                       # component.routing_conditions[j].target_component
           /\ GetDefaultNextComponent(component) # log[1].target
           /\ log[1].target =
                 component.routing_conditions[Least(matching)].target_component

\* the component the loop is at, and what the router returns for its result
CurComponent == ComponentById(scenario, cur)
RouteNow == RouteToNextComponent(CurComponent, result, state)

\* C11: when no routing condition matches, the router returns the first
\* element of next_components if there is one and none otherwise; when the
\* advance decision gets none, the loop stores completed=true with reason
\* no_next_component and stops.
C11_DefaultNextOrEnd ==
    [][(pc \in {"lookahead", "decide"} /\ cur \in ComponentIds(scenario)) =>
          /\ Matching(CurComponent, result, state) = {} =>
                RouteNow = IF Len(CurComponent.next_components) > 0
                           THEN CurComponent.next_components[1]
                           ELSE ""
          /\ (pc = "decide" /\ result.status = COMPLETED /\ RouteNow = "") =>
                /\ pc' = "after_loop"
                /\ log' = Append(log, Entry("completed", "true", "no_next_component"))
                /\ state'["scenario_state"]["completed"] = TRUE
                /\ state'["scenario_state"]["completion_reason"] = "no_next_component"
      ]_vars

\* C12: a call in which a routing predicate raises returns what the other
\* conditions and the default-next list give: the target of the first
\* condition, in declared order, whose predicate returns true, else the first
\* default-next id, else none; the exception does not leave the router.
C12_RaisingPredicateIsNonMatch ==
    pc = "route" =>
        LET conds == CurComponent.routing_conditions
        IN  \A c \in DOMAIN log :
              LET raising == {i \in DOMAIN conds :
                                ConditionRaises(conds[i], result, log[c].st)}
                  holding == {i \in DOMAIN conds \ raising :
                                ConditionHolds(conds[i], result, log[c].st)}
              IN  raising # {} =>
                    /\ log[c].target # RaiseMark
                    /\ log[c].target =
                          IF holding # {}
                          THEN conds[Least(holding)].target_component
                          ELSE GetDefaultNextComponent(CurComponent)

\* a call that met the raising predicate and returned the target of a
\* condition declared after it
C12_Witness ==
    /\ pc = "route"
    /\ Len(log) > 0
    /\ LET conds == CurComponent.routing_conditions
       IN  \E r, h \in DOMAIN conds :
             /\ r < h
             /\ ConditionRaises(conds[r], result, log[1].st)
             /\ \A i \in 1..(h - 1) : ~ConditionHolds(conds[i], result, log[1].st)
             /\ ConditionHolds(conds[h], result, log[1].st)
             /\ log[1].target = conds[h].target_component
             /\ log[1].target # GetDefaultNextComponent(CurComponent)

C14_ConstructionFailsOnEntryOnly ==
    pc # "new" =>
        /\ pc = "construct_failed"
              <=> scenario.entry_component \notin ComponentIds(scenario)
        /\ pc = "idle"
              <=> scenario.entry_component \in ComponentIds(scenario)

\* an agent constructed from a scenario with a routing condition and a
\* default-next id that name a missing component
C14_Witness ==
    /\ pc = "idle"
    /\ scenario \in CandidateScenarios
    /\ \E i \in DOMAIN scenario.components :
          LET component == scenario.components[i]
          IN  /\ \E k \in DOMAIN component.routing_conditions :
                    component.routing_conditions[k].target_component
                        \notin ComponentIds(scenario)
              /\ \E k \in DOMAIN component.next_components :
                    component.next_components[k] \notin ComponentIds(scenario)
    /\ Len(log) > 0

\* C15: the default status policy gives Completed for decision "complete",
\* Running for "continue", Failed for "failed", and Completed for every other
\* value, for an absent decision and for an empty output; it never gives
\* Pending.
C15_DefaultStatusPolicy ==
    (pc = "created" /\ Has(state, OutputKey(cur))) =>
        LET output == state[OutputKey(cur)]
        IN  /\ result.status # PENDING
            /\ IF ~Has(output, "decision") THEN result.status = COMPLETED
               ELSE IF output["decision"] = "complete" THEN result.status = COMPLETED
               ELSE IF output["decision"] = "continue" THEN result.status = RUNNING
               ELSE IF output["decision"] = "failed" THEN result.status = FAILED
               ELSE result.status = COMPLETED

\* a result built from an output whose decision is none of the three values
C15_Witness ==
    /\ pc = "created"
    /\ Has(state, OutputKey(cur))
    /\ Has(state[OutputKey(cur)], "decision")
    /\ state[OutputKey(cur)]["decision"] \notin {"complete", "continue", "failed", ""}
    /\ result.status = COMPLETED

\* C16: the step taken at the flow decision is fixed by the status: Running
\* and any other status such as Pending suspend, Failed runs the failure
\* handling, Completed advances; and whenever the loop has returned, the last
\* thing it did was to store the completed flag and a reason in scenario_state.
C16_FlowDecisionByStatus ==
    /\ [][pc = "decide" =>
              /\ result.status \in {RUNNING, PENDING} =>
                    \/ /\ pc' = "after_loop"
                       /\ log' = Append(log,
                              Entry("completed", "false", "user_input_required"))
                    \/ StateReadRaises(state) /\ pc' = "exc_failure"
              /\ result.status = FAILED =>
                    /\ cur' = cur
                    /\ \/ pc' = "failure_handled"
                       \/ /\ pc' = "exc_failure"
                          /\ log' = Append(log, Entry("failure_component", "", "raise"))
              /\ result.status = COMPLETED =>
                    \/ pc' = "loop" /\ cur' = RouteNow /\ RouteNow # ""
                    \/ /\ RouteNow = ""
                       /\ pc' = "after_loop"
                       /\ log' = Append(log,
                              Entry("completed", "true", "no_next_component"))
                    \/ RouteNow = "" /\ StateReadRaises(state) /\ pc' = "exc_failure"
         ]_vars
    /\ [](pc = "after_loop" =>
              /\ log[Len(log)].op = "completed"
              /\ Has(state, "scenario_state")
              /\ Has(state["scenario_state"], "completed")
              /\ state["scenario_state"]["completed"] = (log[Len(log)].id = "true")
              /\ Has(state["scenario_state"], "completion_reason")
              /\ state["scenario_state"]["completion_reason"] = log[Len(log)].arg)

\* the loop returned after a component whose status was Pending
C16_Witness ==
    /\ pc = "after_loop"
    /\ result.status = PENDING
    /\ log[Len(log)] = Entry("completed", "false", "user_input_required")

\* C17: the update_context step of component c with context updates u leaves
\* component_data[c] equal to u, every key of u holding u's value in the
\* global namespace, and the entries of the other components in
\* component_data as they were; so a key written by two components holds the
\* later writer's value while each entry keeps its own.
C17_UpdateContextMerges ==
    [][(pc = "update_context" /\ pc' # "exc_failure") =>
          LET u == result.context_updates
              before == Get(state, "component_data", EmptyDict)
          IN  /\ Has(state', "component_data")
              /\ Has(state'["component_data"], cur)
              /\ state'["component_data"][cur] = u
              /\ \A k \in DOMAIN u : Has(state', k) /\ state'[k] = u[k]
              /\ \A c \in DOMAIN before \ {cur} :
                    /\ Has(state'["component_data"], c)
                    /\ state'["component_data"][c] = before[c]
      ]_vars

\* C18: whatever keys the context updates of a component carry, the
\* update_context step leaves scenario_state as the StateManager last wrote
\* it and keeps every other component's entry in component_data.
C18_OutputCannotTouchEngineState ==
    [][(pc = "update_context" /\ pc' # "exc_failure") =>
          LET before == Get(state, "component_data", EmptyDict)
          IN  /\ Has(state', "scenario_state")
              /\ state'["scenario_state"] = state["scenario_state"]
              /\ \A c \in DOMAIN before \ {cur} :
                    /\ Has(state', "component_data")
                    /\ Has(state'["component_data"], c)
                    /\ state'["component_data"][c] = before[c]
      ]_vars

\* C19: when an invocation that set completed=true has ended, the output key
\* of every component that ran in it is absent from the session state, as
\* scenario_state and component_data are.
C19_OutputKeysCleanedUp ==
    (pc = "done" /\ SetCompletedTrue) =>
        /\ WorkflowKeysAbsent
        /\ \A i \in Positions("exec") : ~Has(state, OutputKey(log[i].id))

\* C20: when the response of the component executed in this turn could not
\* be parsed, the ComponentResult built for the turn (by the default status
\* policy) has status Completed and empty context updates, whatever output
\* an earlier turn or an earlier run stored for the component.
C20_UnparsedGivesEmptyResult ==
    (pc = "update_status" /\ log[Len(log)] = ExecEntry(cur, "unparsed")
     /\ CurComponent.policy = "default") =>
        /\ result.status = COMPLETED
        /\ result.context_updates = EmptyDict

\* C21: once the delta of update_component_status(c, s) is applied,
\* get_component_status(c) returns s, whatever was stored for c and for other
\* components before.
C21_StatusRoundTrip ==
    [][pc = "status_event" =>
          GetComponentStatus(state', cur) = result.status]_vars

\* a resumed component got a new status while the entry component's is stored
C21_Witness ==
    /\ pc = "update_context"
    /\ log[1] = Entry("resume", cur, "")
    /\ cur # scenario.entry_component
    /\ result.status = FAILED
    /\ GetComponentStatus(state, cur) = FAILED
    /\ GetComponentStatus(state, scenario.entry_component) = COMPLETED

\* C22: validating a definition lists, per component, the missing ids: the
\* condition targets in declared order, then the default-next ids; and
\* validating the same definition again gives the same lists and the same
\* fatal or non-fatal outcome.
C22_ValidationDeterministic ==
    (\A i \in DOMAIN log : log[i].op = "construct") =>
        /\ \A i, j \in DOMAIN log : log[i] = log[j]
        /\ \A i \in DOMAIN log :
              log[i].id = "ok" =>
                LET warned == log[i].arg
                    listed(c) ==
                        SelectSeq(
                            [k \in DOMAIN c.routing_conditions |->
                                 c.routing_conditions[k].target_component]
                            \o c.next_components,
                            LAMBDA t : t \notin ComponentIds(scenario))
                IN  /\ \A w \in DOMAIN warned :
                          warned[w].arg = listed(ComponentById(scenario, warned[w].id))
                    /\ \A k \in DOMAIN scenario.components :
                          listed(scenario.components[k]) # <<>> =>
                              \E w \in DOMAIN warned :
                                  warned[w].id = scenario.components[k].id

\* a definition validated twice whose component misses a condition target
\* and a default-next id
C22_Witness ==
    /\ pc = "idle"
    /\ Len(log) = MaxConstructions
    /\ log[1].op = "construct"
    /\ \E w \in DOMAIN log[1].arg : Len(log[1].arg[w].arg) > 1

\* C23: an invocation that ends by the suspend decision, after a Running
\* result or after any other non-terminal status such as Pending, leaves
\* current_component equal to the component that just executed, and the next
\* invocation executes that component first.
C23_SuspendKeepsCursor ==
    /\ (pc = "done" /\ DetermineNextAction(result.status) = "terminate"
        /\ Len(Execs) > 0) =>
          /\ Has(state, "scenario_state")
          /\ Get(state["scenario_state"], "current_component", "") = cur
    /\ (~Ended /\ prevEnd.kind \in {"suspended", "suspended_other"}
        /\ Len(Execs) > 0) =>
          Execs[1].id = prevEnd.comp

\* scenario_state.current_component as stored in a session state
CurrentComponentOf(st) ==
    Get(Get(st, "scenario_state", EmptyDict), "current_component", "")

\* C24: in the state-update step of a component whose status is Completed or
\* Failed, when the router yields a next id n the stored current_component
\* equals n before the flow decision is taken; when the router yields none,
\* the step leaves current_component as it was.
C24_LookaheadPersistsNext ==
    [][result.status \in {COMPLETED, FAILED} =>
              /\ (pc = "lookahead" /\ RouteNow # "" /\ pc' = "decide") =>
                    CurrentComponentOf(state') = RouteNow /\ cur' = cur
              /\ (pc = "lookahead" /\ RouteNow = "") =>
                    pc' = "decide" /\ state' = state
              /\ (pc \in {"update_status", "status_event"} /\ pc' # "exc_failure") =>
                    CurrentComponentOf(state') = CurrentComponentOf(state)
              /\ (pc = "update_context" /\ pc' = "lookahead"
                  /\ RouteToNextComponent(CurComponent, result, state') = "") =>
                    CurrentComponentOf(state') = CurrentComponentOf(state)
      ]_vars

\* C25: at the start of every loop iteration the id about to be executed is
\* the stored scenario_state.current_component; the id stored by the
\* lookahead and the id computed by the advance are the same.
C25_LoopIdIsStoredId ==
    /\ [](pc = "loop" /\ cur # "" => CurrentComponentOf(state) = cur)
    /\ [][(pc = "decide" /\ pc' = "loop") =>
              cur' = CurrentComponentOf(state)]_vars

\* C26: the event stream holds each executed component's events as the
\* component produced them, in production order; after them come the deltas
\* of its status, of its context and of the lookahead, in that order, and
\* only then the events of the next component.
C26_EventStreamOrder ==
    /\ \A i \in Positions("exec") :
          /\ log[i].events = ProducedEvents(log[i].id, log[i].arg)
          /\ i > 1 => log[i - 1].op \in {"fresh", "resume", "context", "current"}
          /\ (i < Len(log) /\ log[i].arg # "raise") =>
                \/ log[i + 1].op = "status" /\ log[i + 1].id = log[i].id
                \/ log[i + 1].op = "raise"
    /\ \A j \in Positions("status") :
          /\ j > 1 /\ log[j - 1].op = "exec" /\ log[j - 1].id = log[j].id
          /\ j < Len(log) =>
                \/ log[j + 1].op = "context" /\ log[j + 1].id = log[j].id
                \/ log[j + 1].op = "raise"
    /\ \A j \in Positions("context") :
          j > 1 /\ log[j - 1].op = "status" /\ log[j - 1].id = log[j].id
    /\ \A j \in Positions("current") :
          /\ j > 1 /\ log[j - 1].op = "context"
          /\ j < Len(log) => log[j + 1].op # "status"
    /\ pc \in {"status_event", "update_context"} =>
          log[Len(log)].op = "status"
    /\ pc = "lookahead" => log[Len(log)].op = "context"

\* two components ran in one invocation, each with its three deltas
C26_Witness ==
    /\ Len(log) >= 9
    /\ \E i, k \in Positions("exec") :
          /\ k = i + 4
          /\ log[i].id # log[k].id
          /\ Len(log[i].events) = 2
          /\ log[i + 1].op = "status" /\ log[i + 2].op = "context"
          /\ log[i + 3].op = "current" /\ log[i + 3].id = log[k].id
          /\ log[k + 1].op = "status" /\ log[k + 2].op = "context"
          /\ log[k + 3].op = "current"

\* C27: within one invocation, get_current_component_id after
\* update_current_component(id) returns id, is_scenario_completed after
\* set_scenario_completed(flag, reason) returns flag, and each mutating call
\* of the state manager puts exactly one delta event on the stream.
C27_MutatorsReadBack ==
    [][/\ (pc = "lookahead" /\ pc' = "decide" /\ RouteNow # "") =>
             /\ GetCurrentComponentId(state', scenario.entry_component) = RouteNow
             /\ log' = Append(log, Entry("current", RouteNow, ""))
       /\ (pc # "after_loop" /\ pc' = "after_loop") =>
             /\ Len(log') = Len(log) + 1
             /\ log'[Len(log')].op = "completed"
             /\ IsScenarioCompleted(state') = (log'[Len(log')].id = "true")
       /\ (pc = "update_status" /\ pc' = "status_event") =>
             log' = Append(log, Entry("status", cur, result.status))
      ]_vars

\* both round trips happened: the lookahead stored a next id, the loop ran
\* on to the end of the graph and set_scenario_completed(True) was read back
C27_Witness ==
    /\ pc = "after_loop"
    /\ Positions("current") # {}
    /\ IsScenarioCompleted(state)
    /\ log[Len(log)] = Entry("completed", "true", "no_next_component")

\* the component ids that have an entry in component_data
DataIds(st) == DOMAIN Get(st, "component_data", EmptyDict)

\* C28: from fresh initialization to cleanup component_data never loses a
\* component id, and a component's run replaces only its own entry;
\* scenario_state and component_data are removed together, by one delta event.
C28_ComponentDataGrows ==
    [][/\ ~(pc \in {"after_loop", "exc_cleanup"} /\ pc' \in {"done", "raised"}) =>
             /\ DataIds(state) \subseteq DataIds(state')
             /\ \A id \in DataIds(state) \ {cur} :
                   state'["component_data"][id] = state["component_data"][id]
       /\ (\E k \in CleanupKeys : Has(state, k) /\ ~Has(state', k)) =>
             /\ \A k \in CleanupKeys : ~Has(state', k)
             /\ Len(log') = Len(log) + 1
             /\ log'[Len(log')].op = "cleanup"
      ]_vars

\* C29: cleanup_scenario_state changes no key other than scenario_state and
\* component_data; it emits at most one delta event, which carries a delete
\* marker for each of the two keys that is present, and no event when
\* neither is present.
C29_CleanupFrame ==
    [][invocations' = invocations + 1 =>
          LET present == CleanupKeys \cap DOMAIN state
          IN  /\ DOMAIN state' = DOMAIN state \ present
              /\ \A k \in DOMAIN state \ CleanupKeys : state'[k] = state[k]
              /\ IF present = {}
                 THEN log' = log
                 ELSE /\ Len(log') = Len(log) + 1
                      /\ log'[Len(log')].op = "cleanup"
                      /\ log'[Len(log')].keys = present
      ]_vars

\* a first call removed component_data alone and kept the other keys, and a
\* second call found neither key and emitted nothing
C29_Witness ==
    /\ pc = "cleaned"
    /\ invocations = 2
    /\ Len(log) = 1
    /\ log[1].keys = {"component_data"}
    /\ DOMAIN state = {"field"}

\* C30: the session state changes only when an emitted delta is applied:
\* update_component_status leaves the stored component_status map as it is
\* until its delta event is applied.
C30_StatusOnlyByDelta ==
    [][(pc = "update_status" /\ pc' = "status_event") =>
          Get(Get(state', "scenario_state", EmptyDict), "component_status", EmptyDict)
            = Get(Get(state, "scenario_state", EmptyDict), "component_status", EmptyDict)
      ]_vars

\* the step is a run of the failure component
FailureRunStep ==
    /\ Len(log') = Len(log) + 1
    /\ log'[Len(log')].op = "failure_component"

\* C31: the failure component's run is one-shot and is not fed back into
\* the engine: it adds no entry to component_status or component_data, its
\* output never becomes a ComponentResult, and no routing follows it.
C31_FailureRunNotFedBack ==
    /\ [][FailureRunStep =>
              /\ \A k \in (DOMAIN state \cup DOMAIN state') \ {OutputKey(FailureId)} :
                    Has(state, k) /\ Has(state', k) /\ state'[k] = state[k]
              /\ result' = result
              /\ cur' = cur
              /\ pc' \in {"failure_handled", "exc_cleanup", "exc_failure", "raised"}
         ]_vars
    /\ [](\A f \in Positions("failure_component") :
            /\ Len(FailureRuns) = 1
            /\ \A j \in DOMAIN log :
                  j > f => log[j].op \in {"completed", "cleanup", "raise"})
    /\ [](pc \notin {"idle", "restore"} =>
            /\ FailureId \notin DataIds(state)
            /\ ~Has(Get(GetCurrentScenarioState(state), "component_status",
                        EmptyDict), FailureId))

\* between st and st2 nothing changed but the named fields of scenario_state
OnlyFieldsChanged(st, st2, fields) ==
    /\ \A k \in (DOMAIN st \cup DOMAIN st2) \ {"scenario_state"} :
          Has(st, k) /\ Has(st2, k) /\ st2[k] = st[k]
    /\ Has(st2, "scenario_state")
    /\ LET before == GetCurrentScenarioState(st)
           after == st2["scenario_state"]
       IN  \A f \in (DOMAIN before \cup DOMAIN after) \ fields :
               Has(before, f) /\ Has(after, f) /\ after[f] = before[f]

\* between st and st2 no entry of component_status changed but component_id's
OnlyStatusChanged(st, st2, component_id) ==
    LET before == Get(GetCurrentScenarioState(st), "component_status", EmptyDict)
        after == Get(GetCurrentScenarioState(st2), "component_status", EmptyDict)
    IN  \A c \in (DOMAIN before \cup DOMAIN after) \ {component_id} :
            Has(before, c) /\ Has(after, c) /\ after[c] = before[c]

\* C32: each mutator of the state manager changes only its own field of
\* scenario_state: update_component_status(c, s) only component_status[c],
\* update_current_component only current_component, set_scenario_completed
\* only completed and completion_reason; scenario_name, the other fields and
\* every key outside scenario_state stay as they were.
C32_MutatorFrames ==
    [][/\ (pc = "update_status" /\ pc' = "status_event") =>
             /\ OnlyFieldsChanged(state, UpdateComponentStatus(state, cur, result.status),
                                  {"component_status"})
             /\ OnlyStatusChanged(state, UpdateComponentStatus(state, cur, result.status),
                                  cur)
       /\ (pc = "status_event") =>
             /\ OnlyFieldsChanged(state, state', {"component_status"})
             /\ OnlyStatusChanged(state, state', cur)
       /\ (pc = "lookahead" /\ pc' = "decide" /\ state' # state) =>
             OnlyFieldsChanged(state, state', {"current_component"})
       /\ (pc # "after_loop" /\ pc' = "after_loop") =>
             OnlyFieldsChanged(state, state', {"completed", "completion_reason"})
      ]_vars

\* set_scenario_completed ran on a scenario_state that held a name, a
\* cursor and the statuses of two components
C32_Witness ==
    /\ pc = "after_loop"
    /\ Has(state, "scenario_state") /\ Has(state, "component_data")
    /\ LET ss == GetCurrentScenarioState(state)
       IN  /\ Get(ss, "scenario_name", "") = scenario.name
           /\ Get(ss, "current_component", "") # ""
           /\ Cardinality(DOMAIN Get(ss, "component_status", EmptyDict)) = 2
           /\ Get(ss, "completion_reason", "") = "no_next_component"

\* C33: after an invocation that reached a terminal outcome (completed is
\* true), the next invocation of the scenario starts afresh: it executes the
\* entry component first, with an empty component_status map, whatever
\* component the previous run ended on.
C33_FreshAfterTerminal ==
    (prevEnd.kind = "completed" /\ pc \notin {"idle", "done", "raised", "restore"}) =>
        /\ log[1] = Entry("fresh", scenario.entry_component, "")
        /\ Len(Execs) > 0 => Execs[1].id = scenario.entry_component
        /\ (pc \in {"loop", "update_status"} /\ Len(Execs) <= 1) =>
              /\ cur = scenario.entry_component
              /\ Has(state, "scenario_state")
              /\ Get(state["scenario_state"], "component_status", NonDict)
                    = EmptyDict
              /\ ~Has(state["scenario_state"], "completed")

\* the previous run completed on another component than the entry, and the
\* next invocation has executed the entry component
C33_Witness ==
    /\ prevEnd.kind = "completed"
    /\ prevEnd.comp \in ComponentIds(scenario) \ {scenario.entry_component}
    /\ pc = "update_status"
    /\ Len(Execs) = 1
    /\ Execs[1].id = scenario.entry_component

\* the edges of the routing graph that leave a component: its default-next
\* ids and the targets of its conditions
Successors(sc, id) ==
    IF id \notin ComponentIds(sc) THEN {}
    ELSE LET c == ComponentById(sc, id)
         IN  {c.next_components[i] : i \in DOMAIN c.next_components}
             \cup {c.routing_conditions[i].target_component :
                       i \in DOMAIN c.routing_conditions}

\* the ids reachable from the ids of from in at most n steps
RECURSIVE ReachableIn(_, _, _)
ReachableIn(sc, from, n) ==
    IF n = 0 THEN from
    ELSE ReachableIn(sc, from \cup UNION {Successors(sc, id) : id \in from}, n - 1)

\* no component can be routed back to
IsAcyclic(sc) ==
    \A id \in ComponentIds(sc) :
        id \notin ReachableIn(sc, Successors(sc, id), Len(sc.components))

\* every component step and every run of the failure component returned
AllStepsReturned ==
    /\ \A i \in Positions("exec") : log[i].arg # "raise"
    /\ \A i \in Positions("failure_component") : log[i].arg = "returned"

\* the three ways an invocation ends
EndedSuspended ==
    /\ pc = "done"
    /\ ~SetCompletedTrue
    /\ log[Len(log)] = Entry("completed", "false", "user_input_required")
EndedCompleted ==
    /\ pc = "done"
    /\ \E i \in Positions("completed") :
          /\ log[i].id = "true"
          /\ log[i].arg \in
                {"no_next_component", "failure_handled", "component_not_found"}
    /\ log[Len(log)].op = "cleanup"
EndedRaised == pc = "raised"

\* C34: for a scenario whose routing graph is acyclic and whose component
\* steps all return, every invocation ends, after at most as many component
\* executions as the scenario has components, in exactly one of three ways:
\* suspended, completed with a reason, or raised.
C34_AcyclicInvocationEnds ==
    /\ []((IsAcyclic(scenario) /\ AllStepsReturned) =>
            /\ Len(Execs) <= Len(scenario.components)
            /\ \A i, j \in Positions("exec") : log[i].id = log[j].id => i = j
            /\ InvocationEnded =>
                  /\ EndedSuspended \/ EndedCompleted \/ EndedRaised
                  /\ ~(EndedSuspended /\ EndedCompleted)
                  /\ ~(EndedSuspended /\ EndedRaised)
                  /\ ~(EndedCompleted /\ EndedRaised))
    /\ (pc = "restore") ~> InvocationEnded

\* the invocation ran every component of an acyclic scenario once, each
\* step returned, and it ended completed
C34_Witness ==
    /\ IsAcyclic(scenario)
    /\ AllStepsReturned
    /\ EndedCompleted
    /\ Len(Execs) = Len(scenario.components)
    /\ Len(Execs) >= 2

\* C35: in every stored scenario_state, completed = true goes with one of
\* the reasons no_next_component, failure_handled and component_not_found,
\* and the reason user_input_required goes with completed = false.
C35_CompletedAndReasonAgree ==
    (Has(state, "scenario_state") /\ state["scenario_state"] # NonDict) =>
        LET ss == state["scenario_state"]
        IN  /\ (Has(ss, "completed") /\ ss["completed"]) =>
                  Get(ss, "completion_reason", "") \in
                      {"no_next_component", "failure_handled", "component_not_found"}
            /\ Get(ss, "completion_reason", "") = "user_input_required" =>
                  (Has(ss, "completed") /\ ~ss["completed"])

\* the stored component_status map
StatusMap(st) ==
    Get(GetCurrentScenarioState(st), "component_status", EmptyDict)

\* C36: in every stored state of the workflow, component_status has an entry
\* only for components of the graph executed since the last fresh
\* initialization, each value is one of pending, running, completed and
\* failed, and each entry is the status derived from that component's most
\* recent execution. Stated step by step: a fresh initialization empties the
\* map, the status update after an execution sets the executed component's
\* entry to the derived status, and no other step of an invocation adds an
\* entry or changes one.
C36_StatusMapTracksExecutions ==
    /\ [](pc \notin {"idle", "restore"} =>
            \A c \in DOMAIN StatusMap(state) :
                /\ c \in ComponentIds(scenario)
                /\ StatusMap(state)[c] \in {"pending", "running", "completed", "failed"})
    /\ [][(pc = "restore" /\ pc' = "loop" /\ log'[1].op = "fresh") =>
              StatusMap(state') = EmptyDict]_vars
    /\ [][(pc \in {"update_status", "status_event"} /\ pc' # "exc_failure") =>
              /\ Execs[Len(Execs)].id = cur
              /\ StatusMap(state') =
                    Put(StatusMap(state), cur, StatusValue(result.status))]_vars
    /\ [][(pc \in {"loop", "update_context", "lookahead", "decide",
                   "failure_handled", "after_loop", "exc_failure"}
           /\ pc' \notin {"done", "raised"}) =>
              \A c \in DOMAIN StatusMap(state') :
                  /\ Has(StatusMap(state), c)
                  /\ StatusMap(state')[c] = StatusMap(state)[c]]_vars

\* C37: the failure component is never selected by routing: it runs only
\* after a component of the graph returned Failed or after an exception,
\* and when routing yields the failure component's id and that component is
\* not listed in components, the workflow ends with component_not_found
\* and the failure component does not run.
C37_FailureNeverRouted ==
    /\ [](\A f \in Positions("failure_component") :
            \E i \in 1..(f - 1) :
                \/ log[i].op = "status" /\ log[i].arg = FAILED
                \/ log[i].op = "raise"
                \/ log[i].arg = "raise")
    /\ [](\A i \in Positions("exec") :
            FailureId \notin ComponentIds(scenario) => log[i].id # FailureId)
    /\ [][(pc = "loop" /\ cur = FailureId /\ scenario.failure_component
           /\ FailureId \notin ComponentIds(scenario)) =>
              /\ pc' = "after_loop"
              /\ log' = Append(log, Entry("completed", "true", "component_not_found"))
              /\ IsScenarioCompleted(state')]_vars
    /\ []((InvocationEnded /\ scenario.failure_component
            /\ \E i \in DOMAIN log :
                  log[i] = Entry("completed", "true", "component_not_found")) =>
              /\ pc = "done"
              /\ FailureRuns = <<>>)

\* routing chose the failure component's id, and the invocation ended with
\* component_not_found without running it
C37_Witness ==
    /\ pc = "done"
    /\ scenario.failure_component
    /\ \E i \in Positions("current") :
          /\ log[i].id = FailureId
          /\ log[i + 1] = Entry("completed", "true", "component_not_found")
    /\ FailureRuns = <<>>

\* the last call of a step, when the step is a call of cancel_order
CancelStep ==
    /\ Len(log') = Len(log) + 1
    /\ log'[Len(log')].op = "cancel_order"

\* C38: cancel_order(order_id) succeeds exactly when an order of that id
\* exists and is processing; on success only that order's status changes, to
\* cancelled; on error no order changes; so cancelling the same order twice
\* gives one success and then an error, and an order that is cancelled or
\* shipped never returns to processing.
C38_CancelOrder ==
    /\ [][CancelStep =>
              LET call == log'[Len(log')]
                  hit == {i \in DOMAIN state :
                            state[i].id = call.id /\ state[i].status = "processing"}
              IN  /\ (call.arg = "success") <=> (hit # {})
                  /\ call.arg \in {"success", "error"}
                  /\ call.arg = "error" => state' = state
                  /\ call.arg = "success" =>
                        /\ DOMAIN state' = DOMAIN state
                        /\ \A i \in DOMAIN state :
                              state'[i] = IF i \in hit
                                          THEN [state[i] EXCEPT !.status = "cancelled"]
                                          ELSE state[i]
                        /\ Cardinality(hit) = 1
         ]_vars
    /\ [][\A i \in DOMAIN state :
              /\ i \in DOMAIN state'
              /\ state[i].status \in {"cancelled", "shipped"} =>
                    state'[i].status = state[i].status]_vars
    /\ [](\A i, j \in Positions("cancel_order") :
            (i < j /\ log[i].id = log[j].id /\ log[i].arg = "success") =>
                log[j].arg = "error")

\* the same processing order was cancelled twice: success, then error
C38_Witness ==
    /\ Len(log) >= 2
    /\ log[1] = Entry("cancel_order", "ORD001", "success")
    /\ log[2] = Entry("cancel_order", "ORD001", "error")
    /\ state[1].status = "cancelled"
    /\ state[3].status = "processing"

\* C39: every invocation of TravelPlannerAgent, whether it completes,
\* returns early or raises, ends with target_city, city_selection_complete,
\* city_input_agent_output and city_info removed from the session state, so
\* the next invocation starts with city input.
C39_PlannerEndsClean ==
    /\ [](\A i \in Positions("planner_end") :
            log[i].arg \in {"completed", "early", "raised"})
    /\ []((pc = "tp_idle" /\ invocations > 0) =>
            STATE_KEYS_TO_CLEANUP \cap DOMAIN state = {})
    /\ [](\A i \in Positions("planner_start") :
            i > 1 => log[i].arg = "input")

\* an invocation resumed on a stale city and raised; the next one started
\* with city input and returned early; the rest of the session is kept
C39_Witness ==
    /\ Len(log) = 4
    /\ log[1] = Entry("planner_start", "", "resume")
    /\ log[2] = Entry("planner_end", "", "raised")
    /\ log[3] = Entry("planner_start", "", "input")
    /\ log[4] = Entry("planner_end", "", "early")
    /\ DOMAIN state = {"user_name"}

\* C40: StatusHelper.from_decision(d) and _determine_status on an output
\* whose decision is d give the same ComponentStatus, for the three known
\* decisions, for unknown ones, for the empty one and for an absent one.
C40_FromDecisionAgrees ==
    pc = "compared" =>
        /\ log[Len(log)].op = "from_decision"
        /\ log[Len(log)].id = DecisionRead(state, cur)
        /\ log[Len(log)].arg = result.status
        /\ result.status \in {COMPLETED, RUNNING, FAILED}

\* both were applied to an unknown decision
C40_Witness ==
    /\ pc = "compared"
    /\ log[Len(log)] = Entry("from_decision", "done", COMPLETED)
    /\ result.status = COMPLETED
    /\ state[OutputKey(cur)]["decision"] = "done"

====
